---- MODULE Spec2Model ----
(***************************************************************************)
(* Model of github.com/Howard3/valueextractor: a value source (map, query, *)
(* form), typed converters, the Extractor that binds them and collects the *)
(* errors, and the result helpers.                                         *)
(*                                                                         *)
(* Go strings that the code inspects (the raw values handed to strconv)    *)
(* are sequences of one-character strings; keys, which the code only       *)
(* compares and copies, are TLA+ strings.  A Go error value is a record    *)
(*   [tag, text, eType, key, errs]                                         *)
(* where tag names its dynamic type, text is the message fixed when it was *)
(* built and errs are the errors it holds.                                 *)
(***************************************************************************)
EXTENDS Integers, Sequences, FiniteSets, TLC

(***************************************************************************)
(* Bounds of the model.                                                    *)
(***************************************************************************)
\* calls are made while fewer than MaxErrors errors have been collected
MaxErrors == 2
\* number of WithOptionalKeys options handed to one Using call
MaxOptions == 2

(***************************************************************************)
(* Error values (package errors, fmt.Errorf, errors.go)                    *)
(***************************************************************************)
NilErr == [tag |-> "nil", text |-> <<>>, eType |-> "", key |-> "", errs |-> <<>>]

\* errors.New(text), also what fmt.Errorf returns for a format without %w
ErrorsNew(text) ==
    [tag |-> "errorString", text |-> text, eType |-> "", key |-> "", errs |-> <<>>]

\* fmt.Errorf(prefix + ": %w", err)
ErrorfW(prefix, err) ==
    [tag |-> "wrapError", text |-> prefix \o err.text, eType |-> "", key |-> "",
     errs |-> <<err>>]

ErrNotFound == ErrorsNew(<<"key not found">>)
ErrRequestNil == ErrorsNew(<<"request is nil">>)
ErrRequestParseForm == ErrorsNew(<<"error parsing form">>)
\* the error net/http's ParseForm / ParseMultipartForm reports; opaque here
ErrPlatformParse == ErrorsNew(<<"malformed request body">>)

ExtractError == "ExtractError"
ConvertError == "ConvertError"

\* Error.Error(): the message of the cause
NewExtractError(key, err) ==
    [tag |-> "Error", text |-> err.text, eType |-> ExtractError, key |-> key,
     errs |-> <<err>>]

NewConvertError(key, err) ==
    [tag |-> "Error", text |-> err.text, eType |-> ConvertError, key |-> key,
     errs |-> <<err>>]

IsExtractError(e) == e.eType = ExtractError
IsConvertError(e) == e.eType = ConvertError
Key(e) == e.key
\* the field err of an *Error
Cause(e) == e.errs[1]

\* errors.Join(a, b): nil operands are dropped, nil when none is left
ErrorsJoin(a, b) ==
    LET kept == SelectSeq(<<a, b>>, LAMBDA x : x.tag # "nil")
    IN  IF kept = <<>> THEN NilErr
        ELSE [tag |-> "joinError",
              text |-> IF Len(kept) = 1 THEN kept[1].text
                       ELSE kept[1].text \o <<"\n">> \o kept[2].text,
              eType |-> "", key |-> "", errs |-> kept]

\* The errors reached by one Unwrap step.  The type Error declares neither
\* Unwrap nor Is, so nothing is reached from an *Error.
Unwrap(err) ==
    IF err.tag \in {"wrapError", "joinError", "NumError"} THEN err.errs ELSE <<>>

RECURSIVE ErrorsIs(_, _)
ErrorsIs(err, target) ==
    IF err.tag = "nil" \/ target.tag = "nil" THEN err = target
    ELSE \/ err = target
         \/ \E i \in DOMAIN Unwrap(err) : ErrorsIs(Unwrap(err)[i], target)

(***************************************************************************)
(* Raw strings and typed values                                            *)
(***************************************************************************)
Digits == {"0", "1", "2", "3", "4", "5", "6", "7", "8", "9"}

DigitVal(c) ==
    CASE c = "0" -> 0 [] c = "1" -> 1 [] c = "2" -> 2 [] c = "3" -> 3
      [] c = "4" -> 4 [] c = "5" -> 5 [] c = "6" -> 6 [] c = "7" -> 7
      [] c = "8" -> 8 [] c = "9" -> 9

\* An unsigned integer is the sequence of its decimal digits, most significant
\* first and without leading zeros (zero is <<0>>): 64-bit values do not fit
\* the integers of the model checker.
Zero == <<0>>

\* n * 10 + d
MulAdd(n, d) == IF n = Zero THEN <<d>> ELSE Append(n, d)

RECURSIVE DigitsLess(_, _)
DigitsLess(a, b) ==
    IF a = <<>> THEN FALSE
    ELSE IF a[1] # b[1] THEN a[1] < b[1]
    ELSE DigitsLess(Tail(a), Tail(b))

\* a < b on canonical digit sequences
Less(a, b) ==
    IF Len(a) # Len(b) THEN Len(a) < Len(b) ELSE DigitsLess(a, b)

\* 1<<64 - 1, the maxVal of ParseUint for bitSize 64
MaxUint64 == <<1, 8, 4, 4, 6, 7, 4, 4, 0, 7, 3, 7, 0, 9, 5, 5, 1, 6, 1, 5>>
\* maxUint64/10 + 1, the cutoff of ParseUint for base 10
CutoffUint64 == <<1, 8, 4, 4, 6, 7, 4, 4, 0, 7, 3, 7, 0, 9, 5, 5, 1, 6, 2>>
\* 1 << 63, the cutoff of ParseInt for bitSize 64
CutoffInt64 == <<9, 2, 2, 3, 3, 7, 2, 0, 3, 6, 8, 5, 4, 7, 7, 5, 8, 0, 8>>
MaxInt64 == <<9, 2, 2, 3, 3, 7, 2, 0, 3, 6, 8, 5, 4, 7, 7, 5, 8, 0, 7>>

StringVal(s) == [t |-> "string", v |-> s]
Uint64Val(n) == [t |-> "uint64", v |-> n]
Int64Val(neg, mag) == [t |-> "int64", v |-> [neg |-> neg /\ mag # Zero, mag |-> mag]]
Float64Val(neg, ip, fp) == [t |-> "float64", v |-> [neg |-> neg, ip |-> ip, fp |-> fp]]
BoolVal(b) == [t |-> "bool", v |-> b]

\* the zero value of a Go variable of type t ("var result T")
ZeroValue(t) ==
    CASE t = "string" -> StringVal(<<>>)
      [] t = "uint64" -> Uint64Val(Zero)
      [] t = "int64" -> Int64Val(FALSE, Zero)
      [] t = "float64" -> Float64Val(FALSE, Zero, <<>>)
      [] t = "bool" -> BoolVal(FALSE)

(***************************************************************************)
(* strconv (Go standard library), as far as the converters use it          *)
(***************************************************************************)
ErrSyntax == ErrorsNew(<<"invalid syntax">>)
ErrRange == ErrorsNew(<<"value out of range">>)

\* &NumError{fn, s, err}
NumError(fn, s, err) ==
    [tag |-> "NumError",
     text |-> <<"strconv.", fn, ": parsing \"">> \o s \o <<"\": ">> \o err.text,
     eType |-> "", key |-> "", errs |-> <<err>>]

\* The digit loop of ParseUint(s, 10, 64) from position i with n accumulated.
RECURSIVE ParseUintLoop(_, _, _, _)
ParseUintLoop(fn, s, i, n) ==
    IF i > Len(s) THEN [val |-> n, err |-> NilErr]
    ELSE IF s[i] \notin Digits THEN [val |-> Zero, err |-> NumError(fn, s, ErrSyntax)]
    ELSE IF ~Less(n, CutoffUint64) THEN [val |-> MaxUint64, err |-> NumError(fn, s, ErrRange)]
    ELSE LET n1 == MulAdd(n, DigitVal(s[i]))
         IN  IF Less(MaxUint64, n1)
             THEN [val |-> MaxUint64, err |-> NumError(fn, s, ErrRange)]
             ELSE ParseUintLoop(fn, s, i + 1, n1)

\* strconv.ParseUint(s, 10, 64)
ParseUint(s) ==
    IF s = <<>> THEN [val |-> Zero, err |-> NumError("ParseUint", s, ErrSyntax)]
    ELSE ParseUintLoop("ParseUint", s, 1, Zero)

\* strconv.ParseInt(s, 10, 64): val is [neg, mag]
ParseInt(s) ==
    IF s = <<>>
    THEN [val |-> [neg |-> FALSE, mag |-> Zero], err |-> NumError("ParseInt", s, ErrSyntax)]
    ELSE LET neg == s[1] = "-"
             rest == IF s[1] \in {"+", "-"} THEN Tail(s) ELSE s
             un == ParseUint(rest)
         IN  IF un.err.tag # "nil" /\ Cause(un.err) # ErrRange
             THEN [val |-> [neg |-> FALSE, mag |-> Zero],
                   err |-> NumError("ParseInt", s, Cause(un.err))]
             ELSE IF ~neg /\ ~Less(un.val, CutoffInt64)
             THEN [val |-> [neg |-> FALSE, mag |-> MaxInt64],
                   err |-> NumError("ParseInt", s, ErrRange)]
             ELSE IF neg /\ Less(CutoffInt64, un.val)
             THEN [val |-> [neg |-> TRUE, mag |-> CutoffInt64],
                   err |-> NumError("ParseInt", s, ErrRange)]
             ELSE [val |-> [neg |-> neg, mag |-> un.val], err |-> NilErr]

\* strconv.ParseBool(s)
ParseBool(s) ==
    IF s \in {<<"1">>, <<"t">>, <<"T">>, <<"T", "R", "U", "E">>,
              <<"t", "r", "u", "e">>, <<"T", "r", "u", "e">>}
    THEN [val |-> TRUE, err |-> NilErr]
    ELSE IF s \in {<<"0">>, <<"f">>, <<"F">>, <<"F", "A", "L", "S", "E">>,
                   <<"f", "a", "l", "s", "e">>, <<"F", "a", "l", "s", "e">>}
    THEN [val |-> FALSE, err |-> NilErr]
    ELSE [val |-> FALSE, err |-> NumError("ParseBool", s, ErrSyntax)]

\* the digits of s with leading zeros dropped, as a canonical number
RECURSIVE Canonical(_)
Canonical(ds) ==
    IF ds = <<>> THEN Zero
    ELSE IF ds[1] = 0 /\ Len(ds) > 1 THEN Canonical(Tail(ds))
    ELSE ds

\* fraction digits with trailing zeros dropped
RECURSIVE TrimFraction(_)
TrimFraction(ds) ==
    IF ds # <<>> /\ ds[Len(ds)] = 0 THEN TrimFraction(SubSeq(ds, 1, Len(ds) - 1))
    ELSE ds

DigitVals(s) == [i \in DOMAIN s |-> DigitVal(s[i])]

\* strconv.ParseFloat(s, 64) on the decimal forms [+-]digits[.digits] with at
\* most 15 significant digits or an exactly representable value, where the
\* float64 result is named by its decimal expansion; any other string over
\* the alphabet of RawValues is a syntax error.  Exponents, hexadecimal
\* forms, underscores and the words inf/nan do not occur in RawValues.
ParseFloat(s) ==
    LET signed == s # <<>> /\ s[1] \in {"+", "-"}
        neg == s # <<>> /\ s[1] = "-"
        body == IF signed THEN Tail(s) ELSE s
        dots == {i \in DOMAIN body : body[i] = "."}
        dot == IF dots = {} THEN Len(body) + 1 ELSE CHOOSE i \in dots : TRUE
        ip == SubSeq(body, 1, dot - 1)
        fp == SubSeq(body, dot + 1, Len(body))
        wellFormed == /\ Cardinality(dots) <= 1
                      /\ Len(ip) + Len(fp) > 0
                      /\ \A i \in DOMAIN ip : ip[i] \in Digits
                      /\ \A i \in DOMAIN fp : fp[i] \in Digits
    IN  IF wellFormed
        THEN [val |-> [neg |-> neg, ip |-> Canonical(DigitVals(ip)),
                       fp |-> TrimFraction(DigitVals(fp))],
              err |-> NilErr]
        ELSE [val |-> [neg |-> FALSE, ip |-> Zero, fp |-> <<>>],
              err |-> NumError("ParseFloat", s, ErrSyntax)]

(***************************************************************************)
(* Converters (converters.go).  A converter closes over a destination      *)
(* reference; applied to a raw value it yields the value it writes through *)
(* the reference (when err is nil) or the error it returns.                *)
(***************************************************************************)
AsString(value) == [val |-> StringVal(value), err |-> NilErr]

AsUint64(value) ==
    LET r == ParseUint(value)
    IN  IF r.err.tag # "nil"
        THEN [val |-> Uint64Val(Zero), err |-> ErrorsNew(<<"invalid uint value: ">> \o r.err.text)]
        ELSE [val |-> Uint64Val(r.val), err |-> NilErr]

\* AsInt64 built on the unsigned parser
AsInt64_ParsesUnsigned(value) ==
    LET r == ParseUint(value)
    IN  IF r.err.tag # "nil"
        THEN [val |-> Int64Val(FALSE, Zero), err |-> ErrorsNew(<<"invalid int value: ">> \o r.err.text)]
        ELSE [val |-> Int64Val(FALSE, r.val), err |-> NilErr]

AsInt64(value) ==
    LET r == ParseInt(value)
    IN  IF r.err.tag # "nil"
        THEN [val |-> Int64Val(FALSE, Zero), err |-> ErrorsNew(<<"invalid int value: ">> \o r.err.text)]
        ELSE [val |-> Int64Val(r.val.neg, r.val.mag), err |-> NilErr]

AsFloat64(value) ==
    LET r == ParseFloat(value)
    IN  IF r.err.tag # "nil"
        THEN [val |-> Float64Val(FALSE, Zero, <<>>),
              err |-> ErrorsNew(<<"invalid float value: ">> \o r.err.text)]
        ELSE [val |-> Float64Val(r.val.neg, r.val.ip, r.val.fp), err |-> NilErr]

AsBool(value) ==
    LET r == ParseBool(value)
    IN  IF r.err.tag # "nil"
        THEN [val |-> BoolVal(FALSE), err |-> ErrorsNew(<<"invalid bool value: ">> \o r.err.text)]
        ELSE [val |-> BoolVal(r.val), err |-> NilErr]

Converters == {"AsString", "AsUint64", "AsInt64", "AsFloat64", "AsBool"}

\* the type of the destination a converter factory takes a reference to
DestType(conv) ==
    CASE conv = "AsString" -> "string"
      [] conv = "AsUint64" -> "uint64"
      [] conv = "AsInt64" -> "int64"
      [] conv = "AsFloat64" -> "float64"
      [] conv = "AsBool" -> "bool"

\* converter(ec, str) for the converter built by the factory conv
Convert(conv, value) ==
    CASE conv = "AsString" -> AsString(value)
      [] conv = "AsUint64" -> AsUint64(value)
      [] conv = "AsInt64" -> AsInt64(value)
      [] conv = "AsFloat64" -> AsFloat64(value)
      [] conv = "AsBool" -> AsBool(value)

(***************************************************************************)
(* Sources (extractors.go).  A source object is a record                   *)
(*   [kind, data, request, parsed, getter, parses]                         *)
(* kind "map": data is the map, the function that takes a key to          *)
(* [ok, value], the two results of the lookup m[key].  kind "query": data  *)
(* is the url.Values, taking a key to its list of values (empty when the   *)
(* key has none).  kind "form": request is "nil" or the declared encoding  *)
(* of the request, data the url.Values its body carries, parsed and getter *)
(* the fields of the FormExtractor, parses the number of body parses the   *)
(* request has been asked for.  kind "formV1" is the earlier FormExtractor.*)
(***************************************************************************)
\* MapExtractor.Get that also reports an empty value as not found
MapGet_EmptyIsNotFound(m, key) ==
    LET value == m.data[key].value
        ok == m.data[key].ok
    IN  IF ~ok \/ value = <<>>
        THEN [val |-> <<>>, err |-> ErrNotFound, source |-> m]
        ELSE [val |-> value, err |-> NilErr, source |-> m]

\* MapExtractor.Get
MapGet(m, key) ==
    LET value == m.data[key].value
        ok == m.data[key].ok
    IN  IF ~ok
        THEN [val |-> <<>>, err |-> ErrNotFound, source |-> m]
        ELSE [val |-> value, err |-> NilErr, source |-> m]

\* url.Values.Get: the first value of the key, "" when there is none
ValuesGet(values, key) ==
    LET vs == values[key]
    IN  IF Len(vs) = 0 THEN <<>> ELSE vs[1]

\* QueryExtractor.Get
QueryGet(qe, key) ==
    LET value == ValuesGet(qe.data, key)
    IN  IF value = <<>>
        THEN [val |-> <<>>, err |-> ErrNotFound, source |-> qe]
        ELSE [val |-> value, err |-> NilErr, source |-> qe]

\* FormExtractor.isMultipart: the Content-Type starts with
\* "multipart/form-data" (a real multipart request adds "; boundary=...")
isMultipart(fe) == fe.request \in {"multipart", "multipart-boundary"}

\* the earlier isMultipart: the Content-Type is "multipart/form-data"
isMultipartV1(fe) == fe.request = "multipart"

\* one call of Request.ParseMultipartForm / Request.ParseForm, counted
ParseBody(fe) == [fe EXCEPT !.parses = @ + 1]

\* ensureParsed that sets the flag before it parses
ensureParsed_MarksBeforeParsing(fe, parseOK) ==
    IF fe.parsed THEN [err |-> NilErr, source |-> fe]
    ELSE LET fe1 == ParseBody([fe EXCEPT !.getter = "FormValue", !.parsed = TRUE])
         IN  IF ~parseOK
             THEN [err |-> ErrorsJoin(ErrRequestParseForm, ErrPlatformParse),
                   source |-> fe1]
             ELSE [err |-> NilErr, source |-> fe1]

\* FormExtractor.ensureParsed; parseOK is the outcome of the platform's
\* ParseMultipartForm / ParseForm on this attempt
ensureParsed(fe, parseOK) ==
    IF fe.parsed THEN [err |-> NilErr, source |-> fe]
    ELSE LET fe1 == [fe EXCEPT !.getter = "FormValue"]
         IN  IF isMultipart(fe1)
             THEN IF ~parseOK
                  THEN [err |-> ErrorsJoin(ErrRequestParseForm, ErrPlatformParse),
                        source |-> ParseBody(fe1)]
                  ELSE [err |-> NilErr,
                        source |-> [ParseBody(fe1) EXCEPT !.getter = "FormValue",
                                                          !.parsed = TRUE]]
             ELSE IF ~parseOK
                  THEN [err |-> ErrorsJoin(ErrRequestParseForm, ErrPlatformParse),
                        source |-> ParseBody(fe1)]
                  ELSE [err |-> NilErr, source |-> [ParseBody(fe1) EXCEPT !.parsed = TRUE]]

\* fe.getter(key): Request.FormValue reads the parsed form; the method value
\* Request.Form.Get taken before the parse is bound to the nil Form of that
\* moment and finds nothing
GetterCall(fe, key) ==
    IF fe.getter = "FormValue" THEN ValuesGet(fe.data, key) ELSE <<>>

\* FormExtractor.Get
FormGet(fe, key, parseOK) ==
    IF fe.request = "nil"
    THEN [val |-> <<>>, err |-> ErrRequestNil, source |-> fe]
    ELSE LET p == ensureParsed(fe, parseOK)
         IN  IF p.err.tag # "nil"
             THEN [val |-> <<>>, err |-> p.err, source |-> p.source]
             ELSE LET value == GetterCall(p.source, key)
                  IN  IF value = <<>>
                      THEN [val |-> <<>>, err |-> ErrNotFound, source |-> p.source]
                      ELSE [val |-> value, err |-> NilErr, source |-> p.source]

\* the part of the earlier FormExtractor.Get under "if !fe.parsed"
ParseV1(fe, parseOK) ==
    LET fe1 == [fe EXCEPT !.getter = "Form.Get"]
    IN  IF isMultipartV1(fe1)
        THEN IF ~parseOK
             THEN [err |-> ErrorsJoin(ErrRequestParseForm, ErrPlatformParse),
                   source |-> ParseBody(fe1)]
             ELSE [err |-> NilErr,
                   source |-> [ParseBody(fe1) EXCEPT !.getter = "FormValue",
                                                     !.parsed = TRUE]]
        ELSE IF ~parseOK
             THEN [err |-> ErrorsJoin(ErrRequestParseForm, ErrPlatformParse),
                   source |-> ParseBody(fe1)]
             ELSE [err |-> NilErr, source |-> [ParseBody(fe1) EXCEPT !.parsed = TRUE]]

\* the earlier FormExtractor.Get
FormGetV1(fe, key, parseOK) ==
    IF fe.request = "nil"
    THEN [val |-> <<>>, err |-> ErrRequestNil, source |-> fe]
    ELSE LET p == IF ~fe.parsed THEN ParseV1(fe, parseOK)
                  ELSE [err |-> NilErr, source |-> fe]
         IN  IF p.err.tag # "nil"
             THEN [val |-> <<>>, err |-> p.err, source |-> p.source]
             ELSE LET value == GetterCall(p.source, key)
                  IN  IF value = <<>>
                      THEN [val |-> <<>>, err |-> ErrNotFound, source |-> p.source]
                      ELSE [val |-> value, err |-> NilErr, source |-> p.source]

\* ValueExtractor.Get, dispatched on the dynamic type of the source
Get(src, key, parseOK) ==
    CASE src.kind = "map" -> MapGet(src, key)
      [] src.kind = "query" -> QueryGet(src, key)
      [] src.kind = "form" -> FormGet(src, key, parseOK)
      [] src.kind = "formV1" -> FormGetV1(src, key, parseOK)

(***************************************************************************)
(* Extractor (extractor.go).  An Extractor is [errors, optionalKeys]; the  *)
(* source its field extractor refers to is passed beside it.               *)
(***************************************************************************)
\* WithOptionalKeys that adds its keys to those of the options before it
WithOptionalKeys_AddsKeys(keys, ex) == [ex EXCEPT !.optionalKeys = @ \o keys]

\* the option WithOptionalKeys(keys...) applied to ex
WithOptionalKeys(keys, ex) == [ex EXCEPT !.optionalKeys = keys]

RECURSIVE ApplyOptions(_, _)
ApplyOptions(ex, options) ==
    IF options = <<>> THEN ex
    ELSE ApplyOptions(WithOptionalKeys(Head(options), ex), Tail(options))

\* Using(extractor, options...)
Using(options) == ApplyOptions([errors |-> <<>>, optionalKeys |-> <<>>], options)

\* isOptional that looks at the first optional key only
isOptional_FirstKeyOnly(ex, key) ==
    ex.optionalKeys # <<>> /\ ex.optionalKeys[1] = key

isOptional(ex, key) == \E i \in DOMAIN ex.optionalKeys : ex.optionalKeys[i] = key

AddExtractError(ex, key, err) ==
    [ex EXCEPT !.errors = Append(@, NewExtractError(key, err))]

AddConvertError(ex, key, err) ==
    [ex EXCEPT !.errors = Append(@, NewConvertError(key, err))]

\* The rest of With / WithOptional once Get has returned without error:
\* converter(ec, str) writes through the destination reference or fails.
ApplyConverter(ex, g, key, conv, dst) ==
    LET c == Convert(conv, g.val)
    IN  IF c.err.tag # "nil"
        THEN [ex |-> AddConvertError(ex, key, c.err), source |-> g.source,
              dst |-> dst, converted |-> TRUE]
        ELSE [ex |-> ex, source |-> g.source, dst |-> c.val, converted |-> TRUE]

\* With that gives up once an error has been collected
With_StopsAfterFirstError(ex, src, key, conv, dst, parseOK) ==
    LET g == Get(src, key, parseOK)
    IN  IF Len(ex.errors) > 0
        THEN [ex |-> ex, source |-> src, dst |-> dst, converted |-> FALSE]
        ELSE IF g.err.tag # "nil"
        THEN IF ErrorsIs(g.err, ErrNotFound) /\ isOptional(ex, key)
             THEN [ex |-> ex, source |-> g.source, dst |-> dst, converted |-> FALSE]
             ELSE [ex |-> AddExtractError(ex, key, g.err), source |-> g.source,
                   dst |-> dst, converted |-> FALSE]
        ELSE ApplyConverter(ex, g, key, conv, dst)

\* With without the optional-key test: every extraction error is recorded
With_NoOptionalKeys(ex, src, key, conv, dst, parseOK) ==
    LET g == Get(src, key, parseOK)
    IN  IF g.err.tag # "nil"
        THEN [ex |-> AddExtractError(ex, key, g.err), source |-> g.source,
              dst |-> dst, converted |-> FALSE]
        ELSE ApplyConverter(ex, g, key, conv, dst)

\* With that skips an optional key on any extraction error
With_SkipsOptionalOnAnyError(ex, src, key, conv, dst, parseOK) ==
    LET g == Get(src, key, parseOK)
    IN  IF g.err.tag # "nil"
        THEN IF isOptional(ex, key)
             THEN [ex |-> ex, source |-> g.source, dst |-> dst, converted |-> FALSE]
             ELSE [ex |-> AddExtractError(ex, key, g.err), source |-> g.source,
                   dst |-> dst, converted |-> FALSE]
        ELSE ApplyConverter(ex, g, key, conv, dst)

\* Extractor.With(key, converter) with the destination holding dst
With(ex, src, key, conv, dst, parseOK) ==
    LET g == Get(src, key, parseOK)
    IN  IF g.err.tag # "nil"
        THEN IF ErrorsIs(g.err, ErrNotFound) /\ isOptional(ex, key)
             THEN [ex |-> ex, source |-> g.source, dst |-> dst, converted |-> FALSE]
             ELSE [ex |-> AddExtractError(ex, key, g.err), source |-> g.source,
                   dst |-> dst, converted |-> FALSE]
        ELSE ApplyConverter(ex, g, key, conv, dst)

\* WithOptional that drops the error of a failed conversion as well
WithOptional_DropsConvertError(ex, src, key, conv, dst, parseOK) ==
    LET g == Get(src, key, parseOK)
    IN  IF g.err.tag # "nil"
        THEN IF ErrorsIs(g.err, ErrNotFound)
             THEN [ex |-> ex, source |-> g.source, dst |-> dst, converted |-> FALSE]
             ELSE [ex |-> AddExtractError(ex, key, g.err), source |-> g.source,
                   dst |-> dst, converted |-> FALSE]
        ELSE [ApplyConverter(ex, g, key, conv, dst) EXCEPT !.ex = ex]

\* Extractor.WithOptional(key, converter)
WithOptional(ex, src, key, conv, dst, parseOK) ==
    LET g == Get(src, key, parseOK)
    IN  IF g.err.tag # "nil"
        THEN IF ErrorsIs(g.err, ErrNotFound)
             THEN [ex |-> ex, source |-> g.source, dst |-> dst, converted |-> FALSE]
             ELSE [ex |-> AddExtractError(ex, key, g.err), source |-> g.source,
                   dst |-> dst, converted |-> FALSE]
        ELSE ApplyConverter(ex, g, key, conv, dst)

\* Errors() that takes a single collected error for none
Errors_NilUpToOne(ex) == IF Len(ex.errors) <= 1 THEN <<>> ELSE ex.errors

\* Extractor.Errors(); the nil slice and the empty slice are both <<>>
Errors(ex) == IF Len(ex.errors) = 0 THEN <<>> ELSE ex.errors

\* Extractor.JoinedErrors(): errors.Join(err, fmt.Errorf("%s: %w", e.key, e.err))
\* over the errors in order
RECURSIVE JoinLoop(_, _)
JoinLoop(err, es) ==
    IF es = <<>> THEN err
    ELSE JoinLoop(ErrorsJoin(err, ErrorfW(<<Head(es).key, ": ">>, Cause(Head(es)))),
                  Tail(es))

\* JoinedErrors whose loop overwrites err instead of joining onto it
JoinedErrors_KeepsLastOnly(ex) ==
    IF Len(ex.errors) = 0 THEN NilErr
    ELSE JoinLoop(NilErr, <<ex.errors[Len(ex.errors)]>>)

JoinedErrors(ex) == IF Len(ex.errors) = 0 THEN NilErr ELSE JoinLoop(NilErr, ex.errors)

\* the earlier JoinedErrors: errors.Join(err, e) over the errors in order
RECURSIVE JoinLoopV1(_, _)
JoinLoopV1(err, es) ==
    IF es = <<>> THEN err
    ELSE JoinLoopV1(ErrorsJoin(err, Head(es)), Tail(es))

JoinedErrorsV1(ex) == IF Len(ex.errors) = 0 THEN NilErr ELSE JoinLoopV1(NilErr, ex.errors)

\* Result / ResultPtr: var result T; ex.With(key, converter(&result))
Result(ex, src, key, conv, parseOK) ==
    With(ex, src, key, conv, ZeroValue(DestType(conv)), parseOK)

ResultPtr(ex, src, key, conv, parseOK) ==
    With(ex, src, key, conv, ZeroValue(DestType(conv)), parseOK)

\* ResultOptional forwarding to With
ResultOptional_CallsWith(ex, src, key, conv, parseOK) ==
    With(ex, src, key, conv, ZeroValue(DestType(conv)), parseOK)

\* ResultOptional: var result T; ex.WithOptional(key, converter(&result))
ResultOptional(ex, src, key, conv, parseOK) ==
    WithOptional(ex, src, key, conv, ZeroValue(DestType(conv)), parseOK)

\* the direct return functions
ReturnString(ex, src, key, parseOK) ==
    With(ex, src, key, "AsString", ZeroValue("string"), parseOK)

ReturnUint64(ex, src, key, parseOK) ==
    With(ex, src, key, "AsUint64", ZeroValue("uint64"), parseOK)

ReturnInt64(ex, src, key, parseOK) ==
    With(ex, src, "age", "AsInt64", ZeroValue("int64"), parseOK)

ReturnFloat64(ex, src, key, parseOK) ==
    With(ex, src, "age", "AsFloat64", ZeroValue("float64"), parseOK)

ReturnBool(ex, src, key, parseOK) ==
    With(ex, src, "age", "AsBool", ZeroValue("bool"), parseOK)

(***************************************************************************)
(* Inputs: the keys, the raw values a source may hold, the sources and the *)
(* option lists an Extractor is built from.                                *)
(***************************************************************************)
Keys == {"age", "name"}

John == <<"J", "o", "h", "n">>
Pow63 == <<"9", "2", "2", "3", "3", "7", "2", "0", "3", "6", "8", "5", "4", "7", "7",
           "5", "8", "0", "8">>
Pow64 == <<"1", "8", "4", "4", "6", "7", "4", "4", "0", "7", "3", "7", "0", "9", "5",
           "5", "1", "6", "1", "6">>

RawValues ==
    {<<>>, <<"1">>, <<"0", "0", "7">>, <<"-", "5">>, <<"+", "7">>, <<"a", "b", "c">>,
     <<"t", "r", "u", "e">>, <<"1", ".", "5">>, John, Pow63, Pow64}

\* the values each key takes in the sources of Init
ValuesOf == [key \in Keys |-> IF key = "age" THEN RawValues ELSE {John, <<"-", "5">>}]
QueryValuesOf ==
    [key \in Keys |-> IF key = "age"
                      THEN {<<>>, <<"1">>, <<"0", "0", "7">>, <<"-", "5">>, <<"a", "b", "c">>}
                      ELSE {John}]
FormValuesOf == [key \in Keys |-> IF key = "age" THEN {<<"1">>, <<"a", "b", "c">>} ELSE {John}]

Absent == [ok |-> FALSE, value |-> <<>>]
Present(value) == [ok |-> TRUE, value |-> value]

\* the maps in which each key is absent or holds one of values[key]
MapsOver(values) ==
    {d \in [Keys -> {Absent} \cup {Present(v) : v \in RawValues}] :
        \A k \in Keys : d[k].ok => d[k].value \in values[k]}

\* the url.Values with one value for each key of the map d
UrlValues(d) == [k \in Keys |-> IF d[k].ok THEN <<d[k].value>> ELSE <<>>]

Source(kind, data, request) ==
    [kind |-> kind, data |-> data, request |-> request, parsed |-> FALSE, getter |-> "nil",
     parses |-> 0]

MapSources == {Source("map", d, "none") : d \in MapsOver(ValuesOf)}

QuerySources == {Source("query", UrlValues(d), "none") : d \in MapsOver(QueryValuesOf)}

FormKinds == {"form", "formV1"}

FormSources ==
    {Source(kind, UrlValues(d), rq) :
        kind \in FormKinds, d \in MapsOver(FormValuesOf),
        rq \in {"urlencoded", "multipart", "multipart-boundary"}}
    \cup {Source(kind, [k \in Keys |-> <<>>], "nil") : kind \in FormKinds}

\* the key lists handed to WithOptionalKeys
KeyLists == {<<>>, <<"age">>, <<"name">>, <<"age", "name">>}

OptionLists == UNION {[1..n -> KeyLists] : n \in 0..MaxOptions}

\* the value a caller's destination holds before a call
PriorValues(t) ==
    {ZeroValue(t),
     CASE t = "string" -> StringVal(<<"x">>)
       [] t = "uint64" -> Uint64Val(<<9>>)
       [] t = "int64" -> Int64Val(TRUE, <<9>>)
       [] t = "float64" -> Float64Val(FALSE, <<9>>, <<5>>)
       [] t = "bool" -> BoolVal(TRUE)}

\* the outcomes the platform's form parsing can have when src is asked for a key
ParseOutcomes(src) ==
    IF src.kind \in FormKinds /\ src.request # "nil" /\ ~src.parsed THEN BOOLEAN ELSE {TRUE}

(***************************************************************************)
(* State: the Extractor, the source it refers to, and the caller: either   *)
(* between two calls (op "Using" after construction, "idle" later) or      *)
(* holding what its call just returned, with the arguments of the call and *)
(* the state it was made in.  options are the options handed to Using,     *)
(* kept by the caller until a With call made right after Using returns.    *)
(***************************************************************************)
VARIABLES ex, source, last

vars == <<ex, source, last>>

NoValue == [t |-> "none", v |-> <<>>]

Call(op, key, conv, parseOK, dst0, r, ret) ==
    [op |-> op, key |-> key, conv |-> conv, parseOK |-> parseOK, dst0 |-> dst0,
     dst |-> r.dst, converted |-> r.converted, ex0 |-> ex, source0 |-> source,
     ret |-> ret, options |-> IF op = "With" THEN last.options ELSE <<>>]

\* the state after ex := Using(src, options...)
Start(src, options) ==
    /\ ex = Using(options)
    /\ source = src
    /\ last = [op |-> "Using", key |-> "", conv |-> "", parseOK |-> TRUE,
               dst0 |-> NoValue, dst |-> NoValue, converted |-> FALSE,
               ex0 |-> Using(options), source0 |-> src, ret |-> NoValue,
               options |-> options]

Init ==
    \E options \in OptionLists :
        \/ \E src \in MapSources : Start(src, options)
        \/ \E src \in QuerySources : Start(src, options)
        \/ \E src \in FormSources : Start(src, options)

Between == last.op \in {"Using", "idle"}

CanCall == Between /\ Len(ex.errors) < MaxErrors

DoWith ==
    /\ CanCall
    /\ \E key \in Keys, conv \in Converters, parseOK \in ParseOutcomes(source) :
         \E dst0 \in PriorValues(DestType(conv)) :
            LET r == With(ex, source, key, conv, dst0, parseOK)
            IN  /\ ex' = r.ex
                /\ source' = r.source
                /\ last' = Call("With", key, conv, parseOK, dst0, r, NoValue)

DoWithOptional ==
    /\ CanCall
    /\ \E key \in Keys, conv \in Converters, parseOK \in ParseOutcomes(source) :
         \E dst0 \in PriorValues(DestType(conv)) :
            LET r == WithOptional(ex, source, key, conv, dst0, parseOK)
            IN  /\ ex' = r.ex
                /\ source' = r.source
                /\ last' = Call("WithOptional", key, conv, parseOK, dst0, r, NoValue)

\* a helper call: the destination is the helper's own variable, returned
Helper(op, key, conv, parseOK, r) ==
    /\ ex' = r.ex
    /\ source' = r.source
    /\ last' = Call(op, key, conv, parseOK, NoValue, r, r.dst)

DoResult ==
    /\ CanCall
    /\ \E key \in Keys, conv \in Converters, parseOK \in ParseOutcomes(source) :
         Helper("Result", key, conv, parseOK, Result(ex, source, key, conv, parseOK))

DoResultPtr ==
    /\ CanCall
    /\ \E key \in Keys, conv \in Converters, parseOK \in ParseOutcomes(source) :
         Helper("ResultPtr", key, conv, parseOK, ResultPtr(ex, source, key, conv, parseOK))

DoResultOptional ==
    /\ CanCall
    /\ \E key \in Keys, conv \in Converters, parseOK \in ParseOutcomes(source) :
         Helper("ResultOptional", key, conv, parseOK,
                ResultOptional(ex, source, key, conv, parseOK))

DoReturnString ==
    /\ CanCall
    /\ \E key \in Keys, parseOK \in ParseOutcomes(source) :
         Helper("ReturnString", key, "AsString", parseOK,
                ReturnString(ex, source, key, parseOK))

DoReturnUint64 ==
    /\ CanCall
    /\ \E key \in Keys, parseOK \in ParseOutcomes(source) :
         Helper("ReturnUint64", key, "AsUint64", parseOK,
                ReturnUint64(ex, source, key, parseOK))

DoReturnInt64 ==
    /\ CanCall
    /\ \E key \in Keys, parseOK \in ParseOutcomes(source) :
         Helper("ReturnInt64", key, "AsInt64", parseOK,
                ReturnInt64(ex, source, key, parseOK))

DoReturnFloat64 ==
    /\ CanCall
    /\ \E key \in Keys, parseOK \in ParseOutcomes(source) :
         Helper("ReturnFloat64", key, "AsFloat64", parseOK,
                ReturnFloat64(ex, source, key, parseOK))

DoReturnBool ==
    /\ CanCall
    /\ \E key \in Keys, parseOK \in ParseOutcomes(source) :
         Helper("ReturnBool", key, "AsBool", parseOK,
                ReturnBool(ex, source, key, parseOK))

\* the calls that only read the Extractor
AccessorOps == {"Errors", "JoinedErrors", "JoinedErrorsV1"}

\* an accessor call: only its return value is new; the caller may make it
\* between two calls or right after another accessor call
Accessor(op, ret) ==
    /\ Between \/ last.op \in AccessorOps
    /\ last' = [op |-> op, key |-> "", conv |-> "", parseOK |-> TRUE,
                dst0 |-> NoValue, dst |-> NoValue, converted |-> FALSE,
                ex0 |-> ex, source0 |-> source, ret |-> ret, options |-> <<>>]
    /\ UNCHANGED <<ex, source>>

DoErrors == Accessor("Errors", [t |-> "errors", v |-> Errors(ex)])

DoJoinedErrors == Accessor("JoinedErrors", [t |-> "error", v |-> JoinedErrors(ex)])

DoJoinedErrorsV1 == Accessor("JoinedErrorsV1", [t |-> "error", v |-> JoinedErrorsV1(ex)])

\* the caller is done with what the call returned
Proceed ==
    /\ ~Between
    /\ last' = [op |-> "idle", key |-> "", conv |-> "", parseOK |-> TRUE,
                dst0 |-> NoValue, dst |-> NoValue, converted |-> FALSE,
                ex0 |-> ex, source0 |-> source, ret |-> NoValue, options |-> <<>>]
    /\ UNCHANGED <<ex, source>>

Next ==
    \/ Proceed
    \/ DoWith
    \/ DoWithOptional
    \/ DoResult
    \/ DoResultPtr
    \/ DoResultOptional
    \/ DoReturnString
    \/ DoReturnUint64
    \/ DoReturnInt64
    \/ DoReturnFloat64
    \/ DoReturnBool
    \/ DoErrors
    \/ DoJoinedErrors
    \/ DoJoinedErrorsV1

Spec == Init /\ [][Next]_vars

(***************************************************************************)
(* Properties.  They read the caller's last call: its arguments, the state *)
(* it was made in (last.ex0, last.source0) and the state it left.          *)
(***************************************************************************)
\* what the source answered to the Get of the last call
Got == Get(last.source0, last.key, last.parseOK)

\* the keys declared optional when the last call was made
DeclaredOptional == {last.ex0.optionalKeys[i] : i \in DOMAIN last.ex0.optionalKeys}

\* the last call appended exactly the one error e
AppendedOne(e) == ex.errors = Append(last.ex0.errors, e)

AppendedNone == ex.errors = last.ex0.errors

\* C1: a With call for a key the source reports as not found appends no
\* error and leaves the destination alone when the key was declared
\* optional; otherwise it appends exactly one ExtractError with that key
\* and the cause ErrNotFound.  The converter runs in neither case.
C1_WithAbsentKey ==
    (last.op = "With" /\ Got.err = ErrNotFound) =>
        /\ ~last.converted
        /\ last.dst = last.dst0
        /\ IF last.key \in DeclaredOptional
           THEN AppendedNone
           ELSE /\ Len(ex.errors) = Len(last.ex0.errors) + 1
                /\ SubSeq(ex.errors, 1, Len(last.ex0.errors)) = last.ex0.errors
                /\ LET e == ex.errors[Len(ex.errors)]
                   IN  IsExtractError(e) /\ ~IsConvertError(e) /\ Key(e) = last.key
                       /\ Cause(e) = ErrNotFound

\* a With call for an absent key that is not optional, made when an error
\* had already been collected, and one for an absent optional key exist
C1_Witness ==
    /\ last.op = "With"
    /\ Got.err = ErrNotFound
    /\ last.key \notin DeclaredOptional
    /\ DeclaredOptional # {}
    /\ Len(last.ex0.errors) = 1
    /\ Len(ex.errors) = 2

\* the value is there and the converter of the last call rejects it
Malformed == Got.err = NilErr /\ Convert(last.conv, Got.val).err # NilErr

\* C2: a With or WithOptional call whose value is present but rejected by
\* the converter appends exactly one ConvertError with that key, whether or
\* not the key is declared optional, and leaves the destination as it was.
C2_MalformedValue ==
    (last.op \in {"With", "WithOptional"} /\ Malformed) =>
        /\ last.dst = last.dst0
        /\ Len(ex.errors) = Len(last.ex0.errors) + 1
        /\ SubSeq(ex.errors, 1, Len(last.ex0.errors)) = last.ex0.errors
        /\ LET e == ex.errors[Len(ex.errors)]
           IN  IsConvertError(e) /\ ~IsExtractError(e) /\ Key(e) = last.key

\* "abc" handed to AsUint64 for a key declared optional, the destination
\* holding a value other than zero
C2_Witness ==
    /\ last.op = "With"
    /\ last.key \in DeclaredOptional
    /\ last.conv = "AsUint64"
    /\ Got.err = NilErr
    /\ Got.val = <<"a", "b", "c">>
    /\ last.dst0 = Uint64Val(<<9>>)
    /\ Len(ex.errors) = Len(last.ex0.errors) + 1

\* C3: when the source fails with an error other than ErrNotFound, With
\* (also for a key declared optional) and WithOptional append exactly one
\* ExtractError with the key and that error as cause; an extraction error
\* that leaves no entry is ErrNotFound.
C3_SourceFailure ==
    (last.op \in {"With", "WithOptional"} /\ Got.err # NilErr) =>
        /\ Got.err # ErrNotFound =>
              /\ Got.err \in {ErrRequestNil, ErrorsJoin(ErrRequestParseForm, ErrPlatformParse)}
              /\ AppendedOne([tag |-> "Error", text |-> Got.err.text,
                              eType |-> ExtractError, key |-> last.key,
                              errs |-> <<Got.err>>])
        /\ AppendedNone => Got.err = ErrNotFound

\* a form whose body fails to parse, asked by With for a key declared optional
C3_Witness ==
    /\ last.op = "With"
    /\ last.key \in DeclaredOptional
    /\ ErrorsIs(Got.err, ErrRequestParseForm)
    /\ Len(ex.errors) = Len(last.ex0.errors) + 1

\* the last call's Get error was one its optional policy swallows
Suppressed ==
    /\ Got.err = ErrNotFound
    /\ last.op = "WithOptional" \/ last.key \in DeclaredOptional

\* the last call failed: extraction failed and was not suppressed, or the
\* converter rejected the value
FailedCall == (Got.err # NilErr /\ ~Suppressed) \/ Malformed

\* the last call made on ex0 with the state otherwise as it was
Replayed(ex0) ==
    IF last.op = "With"
    THEN With(ex0, last.source0, last.key, last.conv, last.dst0, last.parseOK)
    ELSE WithOptional(ex0, last.source0, last.key, last.conv, last.dst0, last.parseOK)

\* C4: every With / WithOptional call keeps the errors collected before it
\* in their order and appends, at the end, one entry with its key exactly
\* when it failed; what it does to the destination, the source and the
\* errors is what it would do had no error been collected before.  Hence
\* Errors() lists the failed calls, one entry each, in call order.
C4_ErrorsInCallOrder ==
    last.op \in {"With", "WithOptional"} =>
        /\ IF FailedCall
           THEN /\ Len(ex.errors) = Len(last.ex0.errors) + 1
                /\ SubSeq(ex.errors, 1, Len(last.ex0.errors)) = last.ex0.errors
                /\ Key(ex.errors[Len(ex.errors)]) = last.key
           ELSE AppendedNone
        /\ LET r == Replayed([last.ex0 EXCEPT !.errors = <<>>])
           IN  /\ ex.errors = last.ex0.errors \o r.ex.errors
               /\ last.dst = r.dst
               /\ source = r.source
        /\ Errors(ex) = ex.errors

\* the same failing call made twice leaves two equal entries; a call that
\* succeeds after a failure still writes its destination
C4_Witness ==
    /\ last.op = "With"
    /\ FailedCall
    /\ Len(ex.errors) = 2
    /\ ex.errors[1] = ex.errors[2]

C4_WitnessLaterCall ==
    /\ last.op = "With"
    /\ ~FailedCall
    /\ Len(last.ex0.errors) = 1
    /\ last.converted
    /\ last.dst # last.dst0

\* C5: a WithOptional call leaves the destination, the errors and the
\* source as With leaves them on an Extractor that differs only in having
\* the key among its optional keys.
C5_WithOptionalAsDeclared ==
    last.op = "WithOptional" =>
        \A keys \in KeyLists :
            (\E i \in DOMAIN keys : keys[i] = last.key) =>
                LET w == With(WithOptionalKeys(keys, last.ex0), last.source0, last.key,
                              last.conv, last.dst0, last.parseOK)
                IN  /\ ex.errors = w.ex.errors
                    /\ last.dst = w.dst
                    /\ last.converted = w.converted
                    /\ source = w.source

\* WithOptional swallowing ErrNotFound for a key the Extractor does not
\* declare optional
C5_Witness ==
    /\ last.op = "WithOptional"
    /\ last.key \notin DeclaredOptional
    /\ Got.err = ErrNotFound
    /\ AppendedNone

\* s is a non-empty string of decimal digits
IsDecimal(s) == s # <<>> /\ \A i \in DOMAIN s : s[i] \in Digits

\* the number a string of decimal digits writes
DecimalValue(s) == Canonical(DigitVals(s))

Unsigned(s) == IF s # <<>> /\ s[1] \in {"+", "-"} THEN Tail(s) ELSE s

\* the raw value is one the converter conv is to accept: any string for
\* AsString, a decimal number of the target's range for AsUint64 / AsInt64
WellFormed(conv, s) ==
    CASE conv = "AsString" -> TRUE
      [] conv = "AsUint64" -> IsDecimal(s) /\ ~Less(MaxUint64, DecimalValue(s))
      [] conv = "AsInt64" ->
            /\ IsDecimal(Unsigned(s))
            /\ IF s[1] = "-" THEN ~Less(CutoffInt64, DecimalValue(Unsigned(s)))
               ELSE ~Less(MaxInt64, DecimalValue(Unsigned(s)))
      [] OTHER -> FALSE

\* the typed value the whole string s denotes for conv
Denoted(conv, s) ==
    CASE conv = "AsString" -> [t |-> "string", v |-> s]
      [] conv = "AsUint64" -> [t |-> "uint64", v |-> DecimalValue(s)]
      [] conv = "AsInt64" ->
            [t |-> "int64",
             v |-> [neg |-> s[1] = "-" /\ DecimalValue(Unsigned(s)) # Zero,
                    mag |-> DecimalValue(Unsigned(s))]]

\* C6: With on a Map or Query source, for a key the source holds with a
\* value well formed for AsString / AsUint64 / AsInt64, writes the value
\* the whole string denotes to the destination and appends no error, so
\* Errors() is still nil when it was before.
C6_WellFormedValue ==
    (/\ last.op = "With"
     /\ last.source0.kind \in {"map", "query"}
     /\ Got.err = NilErr
     /\ WellFormed(last.conv, Got.val)) =>
        /\ last.dst = Denoted(last.conv, Got.val)
        /\ AppendedNone
        /\ last.ex0.errors = <<>> => Errors(ex) = <<>>

\* "-5" read from a query as an int64 over a destination that held -9
C6_Witness ==
    /\ last.op = "With"
    /\ last.source0.kind = "query"
    /\ last.conv = "AsInt64"
    /\ Got.val = <<"-", "5">>
    /\ last.dst0 = Int64Val(TRUE, <<9>>)
    /\ last.dst = Int64Val(TRUE, <<5>>)
    /\ Errors(ex) = <<>>

\* C7: Result and ResultPtr leave the Extractor and the source as With
\* leaves them when given a zero-valued destination, and return what that
\* destination then holds; ResultOptional does so with WithOptional.
C7_ResultHelpers ==
    /\ last.op \in {"Result", "ResultPtr"} =>
          LET w == With(last.ex0, last.source0, last.key, last.conv,
                        ZeroValue(DestType(last.conv)), last.parseOK)
          IN  ex = w.ex /\ source = w.source /\ last.ret = w.dst
    /\ last.op = "ResultOptional" =>
          LET w == WithOptional(last.ex0, last.source0, last.key, last.conv,
                                ZeroValue(DestType(last.conv)), last.parseOK)
          IN  ex = w.ex /\ source = w.source /\ last.ret = w.dst

\* ResultOptional for an absent key that is not declared optional returns
\* the zero value and records nothing
C7_Witness ==
    /\ last.op = "ResultOptional"
    /\ last.key \notin DeclaredOptional
    /\ Got.err = ErrNotFound
    /\ last.ret = ZeroValue(DestType(last.conv))
    /\ AppendedNone

\* C8: each direct return function called with a key returns what a
\* zero-valued destination holds after With for that key and its
\* converter, and leaves the errors that With call leaves.
C8_ReturnUsesItsKey ==
    last.op \in {"ReturnString", "ReturnUint64", "ReturnInt64", "ReturnFloat64",
                 "ReturnBool"} =>
        LET w == With(last.ex0, last.source0, last.key, last.conv,
                      ZeroValue(DestType(last.conv)), last.parseOK)
        IN  last.ret = w.dst /\ ex.errors = w.ex.errors

\* the entry was recorded for a key the source reported as not found
RecordedAbsence(e) == IsExtractError(e) /\ Cause(e) = ErrNotFound

\* C9: errors.Is(_, ErrNotFound) holds of a recorded error exactly when it
\* was recorded for an absent key, and of JoinedErrors() exactly when some
\* recorded error was.
C9_NotFoundByCause ==
    /\ \A i \in DOMAIN ex.errors :
          ErrorsIs(ex.errors[i], ErrNotFound) <=> RecordedAbsence(ex.errors[i])
    /\ ErrorsIs(JoinedErrors(ex), ErrNotFound)
          <=> \E i \in DOMAIN ex.errors : RecordedAbsence(ex.errors[i])

\* the errors a joined error is made of, left to right
RECURSIVE Leaves(_)
Leaves(err) ==
    IF err.tag = "nil" THEN <<>>
    ELSE IF err.tag # "joinError" THEN <<err>>
    ELSE IF Len(err.errs) = 1 THEN Leaves(err.errs[1])
    ELSE Leaves(err.errs[1]) \o Leaves(err.errs[2])

\* C10 as stated: JoinedErrors() is nil exactly when no error is recorded,
\* and otherwise is made of the recorded errors themselves, one component
\* each, in the order of Errors().
C10_JoinedHoldsRecordedErrors ==
    last.op = "JoinedErrors" =>
        /\ last.ret.v = NilErr <=> ex.errors = <<>>
        /\ Leaves(last.ret.v) = ex.errors
        /\ \A i \in DOMAIN ex.errors : ErrorsIs(last.ret.v, ex.errors[i])

\* C10 amended: JoinedErrors() is nil exactly when no error is recorded;
\* otherwise it is made of one component per recorded error, in the order
\* of Errors(), each a new error with the text "<key>: <cause>" that wraps
\* the cause of the recorded error and not the recorded error itself.  The
\* earlier JoinedErrors joined the recorded errors themselves.
C10_JoinedWrapsCauses ==
    /\ last.op = "JoinedErrors" =>
          LET j == last.ret.v
              parts == Leaves(j)
          IN  /\ j = NilErr <=> ex.errors = <<>>
              /\ Len(parts) = Len(ex.errors)
              /\ \A i \in DOMAIN ex.errors :
                    /\ parts[i].tag = "wrapError"
                    /\ parts[i].text = <<Key(ex.errors[i]), ": ">> \o Cause(ex.errors[i]).text
                    /\ Unwrap(parts[i]) = <<Cause(ex.errors[i])>>
                    /\ ErrorsIs(j, Cause(ex.errors[i]))
                    /\ ~ErrorsIs(j, ex.errors[i])
    /\ last.op = "JoinedErrorsV1" =>
          /\ last.ret.v = NilErr <=> ex.errors = <<>>
          /\ Leaves(last.ret.v) = ex.errors
          /\ \A i \in DOMAIN ex.errors : ErrorsIs(last.ret.v, ex.errors[i])

\* JoinedErrors() over an extraction error and a conversion error
C10_Witness ==
    /\ last.op = "JoinedErrors"
    /\ Len(ex.errors) = 2
    /\ IsExtractError(ex.errors[1])
    /\ IsConvertError(ex.errors[2])
    /\ Key(ex.errors[1]) # Key(ex.errors[2])

\* C11: Errors() and JoinedErrors() leave the errors, the optional keys and
\* the source as they were; the same accessor called again with no other
\* call in between returns the same; Errors() returns the whole sequence
\* of collected errors, which is empty (nil) after construction and, after
\* a With / WithOptional call, exactly when it was empty before the call
\* and the call did not fail.
C11_AccessorsReadOnly ==
    /\ [](last.op \in AccessorOps =>
            /\ ex = last.ex0
            /\ source = last.source0
            /\ last.op = "Errors" =>
                  /\ last.ret.v = ex.errors
                  /\ last.ret.v = <<>> <=> Len(ex.errors) = 0)
    /\ [](last.op = "Using" => ex.errors = <<>>)
    /\ [](last.op \in {"With", "WithOptional"} =>
            (ex.errors = <<>> <=> (last.ex0.errors = <<>> /\ ~FailedCall)))
    /\ [][(last.op \in AccessorOps /\ last'.op = last.op) =>
            (last'.ret = last.ret /\ ex' = ex /\ source' = source)]_vars

\* Errors() called when one error is collected, and when none is after a
\* call that did not fail
C11_Witness ==
    /\ last.op = "Errors"
    /\ Len(ex.errors) = 1
    /\ last.ret.v = ex.errors

\* the last call was a With, a WithOptional or a helper on a form source;
\* each makes one Get
FormCall ==
    /\ last.op \notin AccessorOps \cup {"Using", "idle"}
    /\ last.source0.kind \in FormKinds

\* the Get of the last call asked the request to parse its body
Attempted == source.parses = last.source0.parses + 1

\* C12: on a form source with a request, a Get asks for one body parse
\* exactly when the parsed flag is unset, and the flag is set exactly when
\* an attempt so far has succeeded: it starts unset, a successful attempt
\* sets it, a failed one leaves it unset (so the next Get parses again) and
\* the call records ErrRequestParseForm, and nothing ever unsets it.  With
\* a nil request the Get records ErrRequestNil and asks for no parse and
\* leaves the flag unset.
C12_ParseUntilSuccess ==
    /\ [](last.op = "Using" => (~source.parsed /\ source.parses = 0))
    /\ [](FormCall =>
            /\ source.parses \in {last.source0.parses, last.source0.parses + 1}
            /\ IF last.source0.request = "nil"
               THEN /\ source = last.source0
                    /\ ~source.parsed /\ source.parses = 0
                    /\ Len(ex.errors) = Len(last.ex0.errors) + 1
                    /\ Cause(ex.errors[Len(ex.errors)]) = ErrRequestNil
               ELSE /\ Attempted <=> ~last.source0.parsed
                    /\ source.parsed <=>
                          (last.source0.parsed \/ (Attempted /\ last.parseOK))
                    /\ (Attempted /\ ~last.parseOK) =>
                          /\ Len(ex.errors) = Len(last.ex0.errors) + 1
                          /\ ErrorsIs(Cause(ex.errors[Len(ex.errors)]),
                                      ErrRequestParseForm))
    /\ [][source.parsed => source'.parsed]_vars

\* a parse that fails after an earlier one failed, and a Get on a source
\* already parsed
C12_Witness ==
    /\ FormCall
    /\ last.source0.request # "nil"
    /\ last.source0.parses = 1
    /\ ~last.source0.parsed
    /\ Attempted
    /\ ~last.parseOK
    /\ ~source.parsed

C12_WitnessParsedOnce ==
    /\ FormCall
    /\ last.source0.parsed
    /\ last.source0.parses = 1
    /\ source.parses = 1

\* the source of the last call holds its key with the empty string as value
HoldsEmpty ==
    CASE last.source0.kind = "map" ->
            /\ last.source0.data[last.key].ok
            /\ last.source0.data[last.key].value = <<>>
      [] last.source0.kind = "query" ->
            /\ Len(last.source0.data[last.key]) > 0
            /\ last.source0.data[last.key][1] = <<>>
      [] OTHER -> FALSE

\* what a With call does for a key the source reports as not found
AsForAbsentKey ==
    /\ Got.err = ErrNotFound
    /\ ~last.converted
    /\ last.dst = last.dst0
    /\ IF last.key \in DeclaredOptional
       THEN AppendedNone
       ELSE AppendedOne(NewExtractError(last.key, ErrNotFound))

\* C13 as stated: With on a Map or a Query source that holds the key with
\* an empty value does what it does for an absent key: Get returns
\* ErrNotFound, the converter is not run, and a NotFound ExtractError is
\* appended unless the key is optional.
C13_EmptyIsAbsent ==
    (last.op = "With" /\ last.source0.kind \in {"map", "query"} /\ HoldsEmpty) =>
        AsForAbsentKey

\* C13 amended: on a Query source an empty value is reported as not found
\* and With does what it does for an absent key; on a Map source presence
\* is decided by the key alone: Get returns "" with no error and With hands
\* "" to the converter, so AsString writes "" and the other converters
\* append a ConvertError, whether or not the key is optional.
C13_EmptyValueBySource ==
    (last.op = "With" /\ HoldsEmpty) =>
        IF last.source0.kind = "query"
        THEN AsForAbsentKey
        ELSE /\ Got.err = NilErr /\ Got.val = <<>>
             /\ last.converted
             /\ IF last.conv = "AsString"
                THEN last.dst = StringVal(<<>>) /\ AppendedNone
                ELSE /\ last.dst = last.dst0
                     /\ Len(ex.errors) = Len(last.ex0.errors) + 1
                     /\ IsConvertError(ex.errors[Len(ex.errors)])
                     /\ Key(ex.errors[Len(ex.errors)]) = last.key

\* a map holding "" for an optional key, read as a string over "x"
C13_Witness ==
    /\ last.op = "With"
    /\ last.source0.kind = "map"
    /\ HoldsEmpty
    /\ last.key \in DeclaredOptional
    /\ last.conv = "AsString"
    /\ last.dst0 = StringVal(<<"x">>)
    /\ last.dst = StringVal(<<>>)

\* a query holding "" for a key that is not optional
C13_WitnessQuery ==
    /\ last.op = "With"
    /\ last.source0.kind = "query"
    /\ HoldsEmpty
    /\ last.key \notin DeclaredOptional
    /\ Len(ex.errors) = Len(last.ex0.errors) + 1

\* the error the strconv parser of converter conv returns for s
NativeError(conv, s) ==
    CASE conv = "AsUint64" -> ParseUint(s).err
      [] conv = "AsInt64" -> ParseInt(s).err
      [] conv = "AsFloat64" -> ParseFloat(s).err
      [] conv = "AsBool" -> ParseBool(s).err
      [] OTHER -> NilErr

\* C14: when AsUint64, AsInt64, AsFloat64 or AsBool rejects the value, the
\* cause of the ConvertError the call records wraps the parser's own error:
\* errors.Is reaches the *NumError the parser returned, and through it
\* ErrSyntax or ErrRange, from that cause.
C14_ConvertErrorWrapsNative ==
    (last.op \in {"With", "WithOptional"} /\ Malformed) =>
        LET e == ex.errors[Len(ex.errors)]
            native == NativeError(last.conv, Got.val)
        IN  /\ IsConvertError(e)
            /\ native # NilErr
            /\ ErrorsIs(Cause(e), native)
            /\ ErrorsIs(Cause(e), Cause(native))

\* the keys of the i-th option handed to Using
OptionKeys(i) == {last.options[i][j] : j \in DOMAIN last.options[i]}

\* C15: no call changes the optional keys; after Using they are the keys
\* of the last WithOptionalKeys option (none without options), so a With
\* made right after Using for a key the source reports as not found
\* appends nothing when the last option names the key and a NotFound
\* ExtractError otherwise, also when an earlier option names it.
C15_LastOptionWins ==
    /\ ex.optionalKeys = last.ex0.optionalKeys
    /\ last.op = "Using" =>
          ex.optionalKeys = IF last.options = <<>> THEN <<>>
                            ELSE last.options[Len(last.options)]
    /\ (last.op = "With" /\ last.options # <<>> /\ Got.err = ErrNotFound) =>
          /\ DeclaredOptional = OptionKeys(Len(last.options))
          /\ IF last.key \in OptionKeys(Len(last.options))
             THEN AppendedNone
             ELSE AppendedOne(NewExtractError(last.key, ErrNotFound))

\* Using(src, WithOptionalKeys("age"), WithOptionalKeys("name")) followed
\* by With for the absent key "age"
C15_Witness ==
    /\ last.op = "With"
    /\ Len(last.options) = 2
    /\ last.key \in OptionKeys(1)
    /\ last.key \notin OptionKeys(2)
    /\ OptionKeys(2) # {}
    /\ Got.err = ErrNotFound
    /\ Len(ex.errors) = 1

====
